---- MODULE Spec2Model ----
(***************************************************************************)
(* Date normalisation and renewal-date derivation of the customer          *)
(* dashboard: parseDateAssume2025, formatDate, computeRenewalDate and      *)
(* formatRenewal, as written in CustomerTable.tsx and UserDashboard.tsx.   *)
(*                                                                         *)
(* A JavaScript string is a sequence of one-character strings; a value of  *)
(* type string | null is a record [isNull, chars].  A value of type        *)
(* Date | null is a record [kind, day, ms]: kind "null" is null, kind      *)
(* "invalid" is a Date object whose time value is NaN, kind "date" is a    *)
(* Date whose time value is day * msPerDay + ms.                           *)
(***************************************************************************)
EXTENDS Integers, Sequences, FiniteSets, TLC

VARIABLES host, pc, dateString, charging, renewal, result, calls, shown

\* CustomerTable's list: the customers and loading states, the rows of the
\* store's table cardinfo, the list the fetch returned, and the
\* deleteCustomer calls started so far
VARIABLES customers, loading, store, fetched, deletes

dateVars == <<host, pc, dateString, charging, renewal, result, calls, shown>>

tableVars == <<customers, loading, store, fetched, deletes>>

vars == <<dateVars, tableVars>>

----------------------------------------------------------------------------
(* Strings *)

NullString == [isNull |-> TRUE, chars |-> <<>>]

Str(cs) == [isNull |-> FALSE, chars |-> cs]

Digits == <<"0", "1", "2", "3", "4", "5", "6", "7", "8", "9">>

UpperLetters == <<"A", "B", "C", "D", "E", "F", "G", "H", "I", "J", "K", "L", "M",
                  "N", "O", "P", "Q", "R", "S", "T", "U", "V", "W", "X", "Y", "Z">>

LowerLetters == <<"a", "b", "c", "d", "e", "f", "g", "h", "i", "j", "k", "l", "m",
                  "n", "o", "p", "q", "r", "s", "t", "u", "v", "w", "x", "y", "z">>

Range(f) == {f[i] : i \in DOMAIN f}

\* the regular expression class \d
IsDigit(c) == c \in Range(Digits)

\* the regular expression class \w
IsWord(c) == c \in Range(Digits) \cup Range(UpperLetters) \cup Range(LowerLetters) \cup {"_"}

DigitVal(c) == (CHOOSE i \in DOMAIN Digits : Digits[i] = c) - 1

AllDigits(cs, from, to) == \A i \in from..to : IsDigit(cs[i])

\* parseInt(cs, 10) of a string of decimal digits
RECURSIVE parseInt(_)
parseInt(cs) ==
    IF cs = <<>> THEN 0
    ELSE 10 * parseInt(SubSeq(cs, 1, Len(cs) - 1)) + DigitVal(cs[Len(cs)])

\* String.prototype.toLowerCase
toLowerCase(cs) ==
    [i \in DOMAIN cs |->
        IF \E k \in DOMAIN UpperLetters : UpperLetters[k] = cs[i]
        THEN LowerLetters[CHOOSE k \in DOMAIN UpperLetters : UpperLetters[k] = cs[i]]
        ELSE cs[i]]

\* dateString.replace(/\//g, '-')
ReplaceSlashes(cs) == [i \in DOMAIN cs |-> IF cs[i] = "/" THEN "-" ELSE cs[i]]

\* dateString.split('/')
RECURSIVE split(_)
split(cs) ==
    IF \A i \in DOMAIN cs : cs[i] # "/" THEN <<cs>>
    ELSE LET k == CHOOSE i \in DOMAIN cs : cs[i] = "/" /\ \A j \in 1..(i - 1) : cs[j] # "/"
         IN  <<SubSeq(cs, 1, k - 1)>> \o split(SubSeq(cs, k + 1, Len(cs)))

----------------------------------------------------------------------------
(* The four patterns of parseDateAssume2025 *)

\* /^\d{4}-\d{2}-\d{2}$/
iso(cs) ==
    /\ Len(cs) = 10
    /\ AllDigits(cs, 1, 4) /\ cs[5] = "-"
    /\ AllDigits(cs, 6, 7) /\ cs[8] = "-"
    /\ AllDigits(cs, 9, 10)

\* /^\d{4}\/\d{2}\/\d{2}$/
ymdSlash(cs) ==
    /\ Len(cs) = 10
    /\ AllDigits(cs, 1, 4) /\ cs[5] = "/"
    /\ AllDigits(cs, 6, 7) /\ cs[8] = "/"
    /\ AllDigits(cs, 9, 10)

\* mutation: a loose slash pattern, /^[\d\/]{10}$/ with two slashes
dmySlash_Loose(cs) ==
    /\ Len(cs) = 10
    /\ \A i \in 1..10 : IsDigit(cs[i]) \/ cs[i] = "/"
    /\ Cardinality({i \in 1..10 : cs[i] = "/"}) = 2

\* /^\d{2}\/\d{2}\/\d{4}$/
dmySlash(cs) ==
    /\ Len(cs) = 10
    /\ AllDigits(cs, 1, 2) /\ cs[3] = "/"
    /\ AllDigits(cs, 4, 5) /\ cs[6] = "/"
    /\ AllDigits(cs, 7, 10)

\* /^(\d{1,2})-(\w{3})$/i : the position of the hyphen, 0 when there is no match
dMonHyphen(cs) ==
    IF \E n \in 1..2 :
          /\ Len(cs) = n + 4
          /\ AllDigits(cs, 1, n) /\ cs[n + 1] = "-"
          /\ \A i \in (n + 2)..(n + 4) : IsWord(cs[i])
    THEN Len(cs) - 3
    ELSE 0

dMon(cs) == dMonHyphen(cs) # 0

\* the object literal { jan:1, ..., dec:12 }; 0 stands for undefined
map(abbr) ==
    CASE abbr = <<"j", "a", "n">> -> 1
      [] abbr = <<"f", "e", "b">> -> 2
      [] abbr = <<"m", "a", "r">> -> 3
      [] abbr = <<"a", "p", "r">> -> 4
      [] abbr = <<"m", "a", "y">> -> 5
      [] abbr = <<"j", "u", "n">> -> 6
      [] abbr = <<"j", "u", "l">> -> 7
      [] abbr = <<"a", "u", "g">> -> 8
      [] abbr = <<"s", "e", "p">> -> 9
      [] abbr = <<"o", "c", "t">> -> 10
      [] abbr = <<"n", "o", "v">> -> 11
      [] abbr = <<"d", "e", "c">> -> 12
      [] OTHER -> 0

----------------------------------------------------------------------------
(* The Date object: time values, ECMAScript day arithmetic *)

msPerDay == 24 * 60 * 60 * 1000

Null == [kind |-> "null", day |-> 0, ms |-> 0]

InvalidDate == [kind |-> "invalid", day |-> 0, ms |-> 0]

DateOf(day, ms) == [kind |-> "date", day |-> day, ms |-> ms]

\* ToBoolean of a value of type Date | null: every object is truthy
Truthy(d) == d.kind # "null"

\* isNaN(d.getTime())
IsNaNTime(d) == d.kind = "invalid"

IsValidDate(d) == d.kind = "date"

InLeapYear(y) == (y % 4 = 0 /\ y % 100 # 0) \/ y % 400 = 0

DaysInYear(y) == IF InLeapYear(y) THEN 366 ELSE 365

DayFromYear(y) ==
    365 * (y - 1970) + ((y - 1969) \div 4) - ((y - 1901) \div 100) + ((y - 1601) \div 400)

DaysInMonth(y, m0) ==
    IF m0 = 1 THEN (IF InLeapYear(y) THEN 29 ELSE 28)
    ELSE IF m0 \in {3, 5, 8, 10} THEN 30 ELSE 31

\* days of year y before month m0 (0..12)
RECURSIVE MonthStart(_, _)
MonthStart(y, m0) == IF m0 = 0 THEN 0 ELSE MonthStart(y, m0 - 1) + DaysInMonth(y, m0 - 1)

\* MakeDay(year, month, date): month is 0-based and may overflow, date may be any integer
MakeDay(year, month0, date) ==
    LET ym == year + (month0 \div 12)
        mn == month0 % 12
    IN  DayFromYear(ym) + MonthStart(ym, mn) + date - 1

YearRange == 1970..2100

YearFromDay(day) == CHOOSE y \in YearRange : DayFromYear(y) <= day /\ day < DayFromYear(y + 1)

DayWithinYear(day) == day - DayFromYear(YearFromDay(day))

MonthFromDay(day) ==
    LET y == YearFromDay(day)
        n == DayWithinYear(day)
    IN  CHOOSE m0 \in 0..11 : MonthStart(y, m0) <= n /\ n < MonthStart(y, m0 + 1)

DateFromDay(day) ==
    DayWithinYear(day) - MonthStart(YearFromDay(day), MonthFromDay(day)) + 1

getUTCFullYear(d) == YearFromDay(d.day)

\* 1-based month of a valid date
UTCMonth(d) == MonthFromDay(d.day) + 1

getUTCDate(d) == DateFromDay(d.day)

\* Date.UTC(year, month, date)
DateUTC(year, month0, date) == DateOf(MakeDay(year, month0, date), 0)

\* d.setUTCDate(dt) on a valid date: the time within the day is kept
setUTCDate(d, dt) == DateOf(MakeDay(getUTCFullYear(d), MonthFromDay(d.day), dt), d.ms)

----------------------------------------------------------------------------
(* new Date(string) of the host: the ECMAScript date-time string format    *)
(* YYYY-MM-DDTHH:mm:ssZ, and the host's own parser for everything else.    *)
(* host.overflow is what the host does with a day of month that is in      *)
(* 1..31 but not in the month (V8 rolls over, the standard and             *)
(* SpiderMonkey reject); host.legacy is whether its parser for strings     *)
(* outside the format accepts loosely written dates; host.tz is the local  *)
(* time zone in minutes east of UTC.                                       *)

IsDateTimeFormat(cs) ==
    /\ Len(cs) = 20
    /\ iso(SubSeq(cs, 1, 10))
    /\ cs[11] = "T"
    /\ AllDigits(cs, 12, 13) /\ cs[14] = ":"
    /\ AllDigits(cs, 15, 16) /\ cs[17] = ":"
    /\ AllDigits(cs, 18, 19) /\ cs[20] = "Z"

LegacyDate == DateOf(MakeDay(2001, 0, 1), 10 * 60 * 60 * 1000)

LegacyParse(h, cs) ==
    IF h.legacy = "lenient" /\ \E i \in DOMAIN cs : IsDigit(cs[i])
    THEN LegacyDate
    ELSE InvalidDate

DateParse(h, cs) ==
    IF IsDateTimeFormat(cs)
    THEN LET y  == parseInt(SubSeq(cs, 1, 4))
             mo == parseInt(SubSeq(cs, 6, 7))
             d  == parseInt(SubSeq(cs, 9, 10))
             hh == parseInt(SubSeq(cs, 12, 13))
             mi == parseInt(SubSeq(cs, 15, 16))
             ss == parseInt(SubSeq(cs, 18, 19))
             legal == /\ mo \in 1..12
                      /\ d \in 1..31
                      /\ (h.overflow = "reject" => d <= DaysInMonth(y, mo - 1))
                      /\ mi <= 59 /\ ss <= 59
                      /\ (hh <= 23 \/ (hh = 24 /\ mi = 0 /\ ss = 0))
         IN  IF legal
             THEN LET t == ((hh * 60 + mi) * 60 + ss) * 1000
                  IN  DateOf(MakeDay(y, mo - 1, d) + (t \div msPerDay), t % msPerDay)
             ELSE InvalidDate
    ELSE LegacyParse(h, cs)

\* d.toLocaleDateString('ar-EG'): the local calendar day, or the text "Invalid Date"
toLocaleDateString(h, d) ==
    IF IsNaNTime(d)
    THEN [kind |-> "invalidText", y |-> 0, m |-> 0, d |-> 0]
    ELSE LET local == d.day + ((d.ms + h.tz * 60 * 1000) \div msPerDay)
         IN  [kind |-> "formatted", y |-> YearFromDay(local),
              m |-> MonthFromDay(local) + 1, d |-> DateFromDay(local)]

Placeholder == [kind |-> "placeholder", y |-> 0, m |-> 0, d |-> 0]

NoText == [kind |-> "none", y |-> 0, m |-> 0, d |-> 0]

----------------------------------------------------------------------------
(* The component's functions.  parseDateAssume2025 returns the value       *)
(* together with the branch that produced it; computeRenewalDate returns   *)
(* the value together with the calls of parseDateAssume2025 it made.       *)

\* mutation: only null is taken as absent
IsFalsyString_NullOnly(s) == s.isNull

\* !dateString
IsFalsyString(s) == s.isNull \/ s.chars = <<>>

\* the suffix 'T00:00:00Z'
MidnightZ == <<"T", "0", "0", ":", "0", "0", ":", "0", "0", "Z">>

\* dateString + 'T00:00:00Z'
IsoArgument(cs) == cs \o MidnightZ

\* dateString.replace(/\//g, '-') + 'T00:00:00Z'
YmdSlashArgument(cs) == ReplaceSlashes(cs) \o MidnightZ

\* mutation: the first two fields read month-first
DmySlashArgument_MonthFirst(cs) ==
    LET parts == split(cs)
        mm    == parts[1]
        dd    == parts[2]
        yyyy  == parts[3]
    IN  yyyy \o <<"-">> \o mm \o <<"-">> \o dd \o MidnightZ

\* const [dd, mm, yyyy] = dateString.split('/'); `${yyyy}-${mm}-${dd}T00:00:00Z`
DmySlashArgument(cs) ==
    LET parts == split(cs)
        dd    == parts[1]
        mm    == parts[2]
        yyyy  == parts[3]
    IN  yyyy \o <<"-">> \o mm \o <<"-">> \o dd \o MidnightZ

\* the year of Date.UTC(2025, month - 1, day)
AssumedYear == 2025

\* month of the dMon match: map[m[2].toLowerCase()], 0 when there is no match
\* or the abbreviation is not in the table
DMonMonth(cs) ==
    IF dMon(cs)
    THEN map(toLowerCase(SubSeq(cs, dMonHyphen(cs) + 1, Len(cs))))
    ELSE 0

\* parseInt(m[1], 10)
DMonDay(cs) == parseInt(SubSeq(cs, 1, dMonHyphen(cs) - 1))

\* new Date(Date.UTC(2025, month - 1, day))
DMonDate(cs) == DateUTC(AssumedYear, DMonMonth(cs) - 1, DMonDay(cs))

\* const d = new Date(dateString); if (!isNaN(d.getTime())) return d; return null
GenericFallback(h, cs) ==
    LET d == DateParse(h, cs)
    IN  IF ~IsNaNTime(d) THEN d ELSE Null

parseDateAssume2025(h, s) ==
    IF IsFalsyString(s) THEN [value |-> Null, path |-> "absent"]
    ELSE IF iso(s.chars) THEN [value |-> DateParse(h, IsoArgument(s.chars)), path |-> "iso"]
    ELSE IF ymdSlash(s.chars)
         THEN [value |-> DateParse(h, YmdSlashArgument(s.chars)), path |-> "ymdSlash"]
    ELSE IF dmySlash(s.chars)
         THEN [value |-> DateParse(h, DmySlashArgument(s.chars)), path |-> "dmySlash"]
    ELSE IF DMonMonth(s.chars) # 0 THEN [value |-> DMonDate(s.chars), path |-> "dMon"]
    ELSE [value |-> GenericFallback(h, s.chars), path |-> "generic"]

ParseCall(h, s) == [arg |-> s, path |-> parseDateAssume2025(h, s).path]

formatDate(h, s) ==
    LET d == parseDateAssume2025(h, s).value
    IN  IF ~Truthy(d) THEN Placeholder ELSE toLocaleDateString(h, d)

\* the days added to the charging date
RenewalDays == 30

\* const result = new Date(base); result.setUTCDate(result.getUTCDate() + 30)
AddRenewalDays(base) ==
    IF IsNaNTime(base) THEN InvalidDate
    ELSE setUTCDate(base, getUTCDate(base) + RenewalDays)

\* mutation: the charging date is derived from first, the explicit date is the fallback
computeRenewalDate_ChargingFirst(h, c, r) ==
    LET existing == parseDateAssume2025(h, r).value
        base     == parseDateAssume2025(h, c).value
    IN  IF IsValidDate(base)
        THEN [value |-> AddRenewalDays(base), calls |-> <<ParseCall(h, c)>>]
        ELSE [value |-> existing, calls |-> <<ParseCall(h, c), ParseCall(h, r)>>]

computeRenewalDate(h, c, r) ==
    LET existing == parseDateAssume2025(h, r).value
        base     == parseDateAssume2025(h, c).value
    IN  IF Truthy(existing)
        THEN [value |-> existing, calls |-> <<ParseCall(h, r)>>]
        ELSE IF ~Truthy(base)
             THEN [value |-> Null, calls |-> <<ParseCall(h, r), ParseCall(h, c)>>]
             ELSE [value |-> AddRenewalDays(base),
                   calls |-> <<ParseCall(h, r), ParseCall(h, c)>>]

formatRenewal(h, c, r) ==
    LET d == computeRenewalDate(h, c, r).value
    IN  IF ~Truthy(d) THEN Placeholder ELSE toLocaleDateString(h, d)

----------------------------------------------------------------------------
(* Inputs: the date fields of the records the store supplies *)

MaxDay == 32

MaxMonth == 13

Pad2(n) == <<Digits[(n \div 10) + 1], Digits[(n % 10) + 1]>>

Pad4(n) == Pad2(n \div 100) \o Pad2(n % 100)

Numeral(n) == IF n < 10 THEN <<Digits[n + 1]>> ELSE Pad2(n)

YearFields == {2024, 2025}

MonthFields == {0, 1, 2, 8, 9} \cup (12..MaxMonth)

DayFields == {0, 1, 5, 28, 29, 30} \cup (31..MaxDay)

DayNumerals == {Numeral(n) : n \in {0, 1, 5, 9, 28, 29, 30, 99} \cup (31..MaxDay)}
                   \cup {Pad2(n) : n \in {0, 5}}

Abbreviations ==
    { <<"J", "a", "n">>, <<"j", "a", "n">>, <<"J", "A", "N">>,
      <<"F", "e", "b">>, <<"F", "E", "B">>,
      <<"A", "u", "g">>, <<"A", "U", "G">>, <<"a", "u", "g">>, <<"a", "U", "g">>,
      <<"S", "e", "p">>, <<"D", "e", "c">>, <<"d", "e", "c">>,
      <<"F", "o", "o">>, <<"a", "_", "1">> }

Joined(a, sep, b, c) == a \o <<sep>> \o b \o <<sep>> \o c

IsoInputs ==
    {Joined(Pad4(y), "-", Pad2(m), Pad2(d)) : y \in YearFields, m \in MonthFields, d \in DayFields}

YmdSlashInputs ==
    {Joined(Pad4(y), "/", Pad2(m), Pad2(d)) : y \in YearFields, m \in MonthFields, d \in DayFields}

DmySlashInputs ==
    {Joined(Pad2(d), "/", Pad2(m), Pad4(y)) : y \in YearFields, m \in MonthFields, d \in DayFields}

DMonInputs == {n \o <<"-">> \o a : n \in DayNumerals, a \in Abbreviations}

OtherInputs ==
    { <<>>,
      <<"n", "o", "t", "-", "a", "-", "d", "a", "t", "e">>,
      <<"2", "0", "2", "5", "-", "8", "-", "5">>,
      <<"5", "/", "8", "/", "2", "0", "2", "5">>,
      <<"0", "5", "-", "0", "8", "-", "2", "0", "2", "5">>,
      <<"5", "-", "A", "u", "g", "u", "s", "t">>,
      <<"2", "0", "2", "5", "-", "0", "8", "-", "0", "5", "T",
        "1", "0", ":", "0", "0", ":", "0", "0", "Z">> }

\* strings written to come close to more than one pattern
EngineeredInputs ==
    { <<"1", "2", "-", "3", "4", "5">>,
      <<"1", "-", "2", "_", "3">>,
      <<"2", "0", "2", "5", "-", "0", "8", "/", "0", "5">>,
      <<"2", "0", "/", "0", "8", "/", "2", "0", "2", "5", "0">>,
      <<"0", "5", "/", "0", "8", "-", "2", "0", "2", "5">> }

Inputs ==
    {NullString} \cup
    {Str(cs) : cs \in IsoInputs \cup YmdSlashInputs \cup DmySlashInputs \cup DMonInputs
                         \cup OtherInputs \cup EngineeredInputs}

\* the date fields tried in pairs (charging_date, renewal_date)
RecordInputs ==
    {NullString} \cup
    {Str(cs) : cs \in
        OtherInputs \cup
        {Joined(Pad4(2025), "-", Pad2(m), Pad2(d)) : m \in {2, 12, MaxMonth}, d \in {5, 30}} \cup
        {Joined(Pad2(d), "/", Pad2(8), Pad4(2025)) : d \in {0, 5}} \cup
        {Joined(Pad4(2025), "/", Pad2(9), Pad2(d)) : d \in {1, MaxDay}} \cup
        {n \o <<"-">> \o a : n \in {Numeral(0), Numeral(5), Numeral(99)},
                             a \in {<<"A", "u", "g">>, <<"D", "e", "c">>}} \cup
        {<<"5", "-", "F", "o", "o">>}}

\* the rows of cardinfo, by id
MaxCustomers == 3

CustomerIds == 1..MaxCustomers

\* the deleteCustomer calls started in one run
MaxDeletes == 3

Hosts ==
    [overflow : {"rollover", "reject"}, legacy : {"strict", "lenient"}, tz : {-300, 0, 120}]

----------------------------------------------------------------------------
(* The specification: one call of one of the four functions on a record's  *)
(* date fields, on some host.                                              *)

Init ==
    /\ host \in Hosts
    /\ pc = "idle"
    /\ dateString = NullString
    /\ charging = NullString
    /\ renewal = NullString
    /\ result = Null
    /\ calls = <<>>
    /\ shown = NoText
    /\ customers = <<>>
    /\ loading = TRUE
    /\ store = CustomerIds
    /\ fetched = <<>>
    /\ deletes = <<>>

CallParse ==
    \E s \in Inputs :
        /\ pc = "idle"
        /\ pc' = "parseDateAssume2025"
        /\ dateString' = s
        /\ result' = parseDateAssume2025(host, s).value
        /\ calls' = <<ParseCall(host, s)>>
        /\ UNCHANGED <<host, charging, renewal, shown>>
        /\ UNCHANGED tableVars

CallFormatDate ==
    \E s \in Inputs :
        /\ pc = "idle"
        /\ pc' = "formatDate"
        /\ dateString' = s
        /\ result' = parseDateAssume2025(host, s).value
        /\ calls' = <<ParseCall(host, s)>>
        /\ shown' = formatDate(host, s)
        /\ UNCHANGED <<host, charging, renewal>>
        /\ UNCHANGED tableVars

CallComputeRenewal ==
    \E c \in RecordInputs, r \in RecordInputs :
        /\ pc = "idle"
        /\ pc' = "computeRenewalDate"
        /\ charging' = c
        /\ renewal' = r
        /\ result' = computeRenewalDate(host, c, r).value
        /\ calls' = computeRenewalDate(host, c, r).calls
        /\ UNCHANGED <<host, dateString, shown>>
        /\ UNCHANGED tableVars

CallFormatRenewal ==
    \E c \in RecordInputs, r \in RecordInputs :
        /\ pc = "idle"
        /\ pc' = "formatRenewal"
        /\ charging' = c
        /\ renewal' = r
        /\ result' = computeRenewalDate(host, c, r).value
        /\ calls' = computeRenewalDate(host, c, r).calls
        /\ shown' = formatRenewal(host, c, r)
        /\ UNCHANGED <<host, dateString>>
        /\ UNCHANGED tableVars

Next == CallParse \/ CallFormatDate \/ CallComputeRenewal \/ CallFormatRenewal

Spec == Init /\ [][Next]_vars

TypeOK ==
    /\ host \in Hosts
    /\ pc \in {"idle", "parseDateAssume2025", "formatDate", "computeRenewalDate", "formatRenewal"}
    /\ result.kind \in {"null", "invalid", "date"}
    /\ shown.kind \in {"none", "placeholder", "invalidText", "formatted"}

----------------------------------------------------------------------------
(* Properties *)

Parsed(s) == parseDateAssume2025(host, s).value

\* YYYY-MM-DD written from three field strings
IsoText(yyyy, mm, dd) == Str(yyyy \o <<"-">> \o mm \o <<"-">> \o dd)

\* C1: parseDateAssume2025 is total: for every input it returns null or a
\* valid calendar date, never an invalid date value.
C1_ParseIsTotal ==
    pc = "parseDateAssume2025" => result.kind \in {"null", "date"}

\* C2: whenever existingRenewal parses to a valid date, computeRenewalDate
\* returns that parsed date unchanged, whatever charging is, and charging is
\* never parsed to derive the result.
C2_ExplicitRenewalWins ==
    (pc = "computeRenewalDate" /\ IsValidDate(Parsed(renewal))) =>
        /\ result = Parsed(renewal)
        /\ \A i \in DOMAIN calls : calls[i].arg = renewal
        /\ Len(calls) = 1

\* C2 witness: an explicit renewal date earlier than a valid charging date is returned.
C2_Witness ==
    /\ pc = "computeRenewalDate"
    /\ IsValidDate(Parsed(renewal)) /\ IsValidDate(Parsed(charging))
    /\ Parsed(renewal).day < Parsed(charging).day
    /\ result = Parsed(renewal)

\* C3: whenever existingRenewal does not parse to a valid date and charging
\* does, computeRenewalDate returns the date exactly 30 days after the
\* charging date.
C3_ThirtyDaysAfterCharging ==
    (pc = "computeRenewalDate" /\ ~IsValidDate(Parsed(renewal)) /\ IsValidDate(Parsed(charging))) =>
        result = DateOf(Parsed(charging).day + 30, Parsed(charging).ms)

\* C4: computeRenewalDate returns null exactly when neither existingRenewal
\* nor charging parses to a valid date, and a valid calendar date otherwise.
C4_NullIffNeitherParses ==
    pc = "computeRenewalDate" =>
        /\ (result = Null) <=> (~IsValidDate(Parsed(renewal)) /\ ~IsValidDate(Parsed(charging)))
        /\ (result # Null => IsValidDate(result))

\* C5: for every input of a year-first shape, YYYY-MM-DD or YYYY/MM/DD,
\* parseDateAssume2025 returns the date at UTC midnight whose year, month and
\* day are the three written fields, and the slash form gives the result of
\* the hyphen form.
C5_YearFirstIsExactDate ==
    (pc = "parseDateAssume2025" /\ ~dateString.isNull
        /\ (iso(dateString.chars) \/ ymdSlash(dateString.chars))) =>
        LET cs == dateString.chars
        IN  /\ IsValidDate(result)
            /\ result.ms = 0
            /\ getUTCFullYear(result) = parseInt(SubSeq(cs, 1, 4))
            /\ UTCMonth(result) = parseInt(SubSeq(cs, 6, 7))
            /\ getUTCDate(result) = parseInt(SubSeq(cs, 9, 10))
            /\ result = Parsed(IsoText(SubSeq(cs, 1, 4), SubSeq(cs, 6, 7), SubSeq(cs, 9, 10)))

\* C6: for every input of the shape DD/MM/YYYY, parseDateAssume2025 reads the
\* fields positionally as day, month, year: the result is that of the
\* YYYY-MM-DD string built from the same year, month and day.
C6_DayFirstEqualsIso ==
    (pc = "parseDateAssume2025" /\ ~dateString.isNull /\ dmySlash(dateString.chars)) =>
        LET cs == dateString.chars
        IN  result = Parsed(IsoText(SubSeq(cs, 7, 10), SubSeq(cs, 4, 5), SubSeq(cs, 1, 2)))

\* C6 witness: "05/08/2025" has been parsed to 5 August 2025.
C6_Witness ==
    /\ pc = "parseDateAssume2025"
    /\ dateString = Str(<<"0", "5", "/", "0", "8", "/", "2", "0", "2", "5">>)
    /\ IsValidDate(result)
    /\ getUTCFullYear(result) = 2025 /\ UTCMonth(result) = 8 /\ getUTCDate(result) = 5

\* C7: for every input D-Mon or DD-Mon whose Mon is one of the twelve
\* abbreviations in any letter case, the result is the date whose day is the
\* numeral and whose month is the table's, and inputs that differ only in
\* the letter case of the abbreviation parse to the same date.
C7_DayAndMonthAsWritten ==
    (pc = "parseDateAssume2025" /\ ~dateString.isNull /\ dMon(dateString.chars)
        /\ map(toLowerCase(SubSeq(dateString.chars, Len(dateString.chars) - 2,
                                  Len(dateString.chars)))) # 0) =>
        LET cs    == dateString.chars
            h     == Len(cs) - 3
            abbr  == SubSeq(cs, h + 1, Len(cs))
        IN  /\ IsValidDate(result)
            /\ getUTCDate(result) = parseInt(SubSeq(cs, 1, h - 1))
            /\ UTCMonth(result) = map(toLowerCase(abbr))
            /\ result = Parsed(Str(SubSeq(cs, 1, h) \o toLowerCase(abbr)))

\* C8: every date parsed from a year-less input D-Mon or DD-Mon with a month
\* abbreviation of the table lies in the assumed year 2025, for every day
\* numeral 0 to 99.
C8_YearLessIsIn2025 ==
    (pc = "parseDateAssume2025" /\ ~dateString.isNull /\ dMon(dateString.chars)
        /\ map(toLowerCase(SubSeq(dateString.chars, Len(dateString.chars) - 2,
                                  Len(dateString.chars)))) # 0) =>
        (IsValidDate(result) /\ getUTCFullYear(result) = 2025)

\* C9: parseDateAssume2025(null) and parseDateAssume2025("") return null, and
\* the generic fallback parser is not consulted for them.
C9_AbsentIsNull ==
    /\ (pc = "parseDateAssume2025" /\ (dateString.isNull \/ dateString.chars = <<>>)) =>
           result = Null
    /\ \A i \in DOMAIN calls :
           (calls[i].arg.isNull \/ calls[i].arg.chars = <<>>) => calls[i].path = "absent"

\* C9 witness: the empty string has been parsed to null.
C9_Witness ==
    /\ pc = "parseDateAssume2025"
    /\ dateString = Str(<<>>)
    /\ result = Null
    /\ calls = <<[arg |-> Str(<<>>), path |-> "absent"]>>

\* C10: formatDate and formatRenewal show the placeholder exactly when the
\* underlying value is not a valid calendar date, and a formatted date
\* otherwise.
C10_PlaceholderOrFormattedDate ==
    pc \in {"formatDate", "formatRenewal"} =>
        LET d == IF pc = "formatDate" THEN Parsed(dateString)
                 ELSE computeRenewalDate(host, charging, renewal).value
        IN  /\ shown.kind \in {"placeholder", "formatted"}
            /\ (shown = Placeholder) <=> ~IsValidDate(d)

----------------------------------------------------------------------------
(* The patterns tried in any order *)

PatternNames == {"iso", "ymdSlash", "dmySlash", "dMon"}

\* pattern.test(dateString) / dateString.match(dMon)
PatternMatches(p, cs) ==
    CASE p = "iso"      -> iso(cs)
      [] p = "ymdSlash" -> ymdSlash(cs)
      [] p = "dmySlash" -> dmySlash(cs)
      [] p = "dMon"     -> dMon(cs)

\* the value the branch of pattern p returns
PatternValue(h, p, cs) ==
    CASE p = "iso"      -> DateParse(h, IsoArgument(cs))
      [] p = "ymdSlash" -> DateParse(h, YmdSlashArgument(cs))
      [] p = "dmySlash" -> DateParse(h, DmySlashArgument(cs))
      [] p = "dMon"     -> DMonDate(cs)

\* the branches tried in the given order, then the generic fallback
RECURSIVE TryPatterns(_, _, _)
TryPatterns(h, order, cs) ==
    IF order = <<>> THEN GenericFallback(h, cs)
    ELSE IF PatternMatches(Head(order), cs) /\ (Head(order) = "dMon" => DMonMonth(cs) # 0)
         THEN PatternValue(h, Head(order), cs)
         ELSE TryPatterns(h, Tail(order), cs)

ParseInOrder(h, order, s) ==
    IF IsFalsyString(s) THEN Null ELSE TryPatterns(h, order, s.chars)

Orders == {o \in [1..4 -> PatternNames] : \A i, j \in 1..4 : o[i] = o[j] => i = j}

\* C11: the four patterns are mutually exclusive: no input matches more
\* than one of them, the result of parseDateAssume2025 is the same for every
\* order in which the patterns are tried, and the generic fallback is
\* reached only by a non-empty string that matches none of them or matches
\* the day-token pattern with a token outside the table.
C11_PatternsExclusive ==
    pc = "parseDateAssume2025" =>
        LET cs == dateString.chars
        IN  /\ Cardinality({p \in PatternNames : PatternMatches(p, cs)}) <= 1
            /\ \A o \in Orders : ParseInOrder(host, o, dateString) = result
            /\ (calls[1].path = "generic") <=>
                   /\ ~dateString.isNull /\ cs # <<>>
                   /\ \/ \A p \in PatternNames : ~PatternMatches(p, cs)
                      \/ /\ dMon(cs)
                         /\ map(toLowerCase(SubSeq(cs, Len(cs) - 2, Len(cs)))) = 0

\* C11 witness: a day-token input with a token outside the table has gone
\* to the generic fallback, which gave a date.
C11_Witness ==
    /\ pc = "parseDateAssume2025"
    /\ ~dateString.isNull /\ dMon(dateString.chars)
    /\ calls[1].path = "generic"
    /\ IsValidDate(result)

----------------------------------------------------------------------------
(* The copy of the routine in UserDashboard.tsx, on the same host.  The    *)
(* built-ins of the language (RegExp classes, split, replace, parseInt,    *)
(* toLowerCase, Date) are the ones above; what the component writes itself *)
(* is translated again from its own lines.                                 *)

\* /^\d{4}-\d{2}-\d{2}$/
UserDashboard_iso(cs) ==
    /\ Len(cs) = 10
    /\ \A i \in {1, 2, 3, 4, 6, 7, 9, 10} : IsDigit(cs[i])
    /\ cs[5] = "-" /\ cs[8] = "-"

\* /^\d{4}\/\d{2}\/\d{2}$/
UserDashboard_ymdSlash(cs) ==
    /\ Len(cs) = 10
    /\ \A i \in {1, 2, 3, 4, 6, 7, 9, 10} : IsDigit(cs[i])
    /\ cs[5] = "/" /\ cs[8] = "/"

\* /^\d{2}\/\d{2}\/\d{4}$/
UserDashboard_dmySlash(cs) ==
    /\ Len(cs) = 10
    /\ \A i \in {1, 2, 4, 5, 7, 8, 9, 10} : IsDigit(cs[i])
    /\ cs[3] = "/" /\ cs[6] = "/"

\* /^(\d{1,2})-(\w{3})$/i : the two groups of the match, <<>> when there is none
UserDashboard_dMon(cs) ==
    IF Len(cs) = 5 /\ IsDigit(cs[1]) /\ cs[2] = "-"
          /\ IsWord(cs[3]) /\ IsWord(cs[4]) /\ IsWord(cs[5])
    THEN <<SubSeq(cs, 1, 1), SubSeq(cs, 3, 5)>>
    ELSE IF Len(cs) = 6 /\ IsDigit(cs[1]) /\ IsDigit(cs[2]) /\ cs[3] = "-"
               /\ IsWord(cs[4]) /\ IsWord(cs[5]) /\ IsWord(cs[6])
         THEN <<SubSeq(cs, 1, 2), SubSeq(cs, 4, 6)>>
         ELSE <<>>

\* the object literal { jan:1, ..., dec:12 }; 0 stands for undefined
UserDashboard_map(abbr) ==
    LET names == << <<"j", "a", "n">>, <<"f", "e", "b">>, <<"m", "a", "r">>,
                    <<"a", "p", "r">>, <<"m", "a", "y">>, <<"j", "u", "n">>,
                    <<"j", "u", "l">>, <<"a", "u", "g">>, <<"s", "e", "p">>,
                    <<"o", "c", "t">>, <<"n", "o", "v">>, <<"d", "e", "c">> >>
    IN  IF \E k \in 1..12 : names[k] = abbr
        THEN CHOOSE k \in 1..12 : names[k] = abbr
        ELSE 0

\* mutation: this copy alone moved on to the next assumed year
UserDashboard_DMonDate_NextYear(month, day) == DateUTC(2026, month - 1, day)

\* new Date(Date.UTC(2025, month - 1, day))
UserDashboard_DMonDate(month, day) == DateUTC(2025, month - 1, day)

UserDashboard_parseDateAssume2025(h, s) ==
    IF s.isNull \/ s.chars = <<>> THEN Null
    ELSE IF UserDashboard_iso(s.chars) THEN DateParse(h, s.chars \o MidnightZ)
    ELSE IF UserDashboard_ymdSlash(s.chars)
         THEN DateParse(h, ReplaceSlashes(s.chars) \o MidnightZ)
    ELSE IF UserDashboard_dmySlash(s.chars)
         THEN LET parts == split(s.chars)
              IN  DateParse(h, parts[3] \o <<"-">> \o parts[2] \o <<"-">> \o parts[1] \o MidnightZ)
    ELSE LET m     == UserDashboard_dMon(s.chars)
             month == IF m # <<>> THEN UserDashboard_map(toLowerCase(m[2])) ELSE 0
             d     == DateParse(h, s.chars)
         IN  IF m # <<>> /\ month # 0
             THEN UserDashboard_DMonDate(month, parseInt(m[1]))
             ELSE IF ~IsNaNTime(d) THEN d ELSE Null

UserDashboard_formatDate(h, s) ==
    LET d == UserDashboard_parseDateAssume2025(h, s)
    IN  IF d.kind = "null" THEN Placeholder ELSE toLocaleDateString(h, d)

UserDashboard_computeRenewalDate(h, c, r) ==
    LET existing == UserDashboard_parseDateAssume2025(h, r)
        base     == UserDashboard_parseDateAssume2025(h, c)
    IN  IF existing.kind # "null" THEN existing
        ELSE IF base.kind = "null" THEN Null
        ELSE IF IsNaNTime(base) THEN InvalidDate
        ELSE setUTCDate(base, getUTCDate(base) + 30)

UserDashboard_formatRenewal(h, c, r) ==
    LET d == UserDashboard_computeRenewalDate(h, c, r)
    IN  IF d.kind = "null" THEN Placeholder ELSE toLocaleDateString(h, d)

\* C12: on the same host the two copies agree: for every input
\* parseDateAssume2025 of UserDashboard returns what that of CustomerTable
\* returns, for every pair so does computeRenewalDate, and the two views
\* show the same text.
C12_CopiesAgree ==
    /\ pc \in {"parseDateAssume2025", "formatDate"} =>
           UserDashboard_parseDateAssume2025(host, dateString) = result
    /\ pc = "formatDate" => UserDashboard_formatDate(host, dateString) = shown
    /\ pc \in {"computeRenewalDate", "formatRenewal"} =>
           UserDashboard_computeRenewalDate(host, charging, renewal) = result
    /\ pc = "formatRenewal" => UserDashboard_formatRenewal(host, charging, renewal) = shown

\* C12 witness: both copies have derived the same renewal date from a
\* year-less charging date.
C12_Witness ==
    /\ pc = "formatRenewal"
    /\ ~charging.isNull /\ dMon(charging.chars)
    /\ IsValidDate(result) /\ result # Parsed(renewal)
    /\ UserDashboard_computeRenewalDate(host, charging, renewal) = result
    /\ shown.kind = "formatted"

----------------------------------------------------------------------------
(* CustomerTable: fetchCustomers and deleteCustomer.  A customer is its    *)
(* id.  A deleteCustomer call is [id, captured, phase]: captured is the    *)
(* customers value of the render whose button was clicked, phase is        *)
(* "awaiting" until the store answers, then "ok" or "error" until the      *)
(* call resumes after its await, then "done".                              *)

\* .order('id', { ascending: true })
RECURSIVE OrderById(_)
OrderById(ids) ==
    IF ids = {} THEN <<>>
    ELSE LET least == CHOOSE i \in ids : \A j \in ids : i <= j
         IN  <<least>> \o OrderById(ids \ {least})

\* customers.filter(c => c.id !== id)
FilterOut(list, id) == SelectSeq(list, LAMBDA c : c # id)

\* fetchCustomers, the store answering with the rows
FetchCustomersOk ==
    /\ loading
    /\ customers' = OrderById(store)
    /\ fetched' = OrderById(store)
    /\ loading' = FALSE
    /\ UNCHANGED <<store, deletes>>
    /\ UNCHANGED dateVars

\* fetchCustomers, the store answering with an error
FetchCustomersError ==
    /\ loading
    /\ loading' = FALSE
    /\ UNCHANGED <<customers, store, fetched, deletes>>
    /\ UNCHANGED dateVars

\* onClick={() => deleteCustomer(customer.id)}: the request is sent
StartDelete ==
    \E k \in DOMAIN customers :
        /\ ~loading
        /\ Len(deletes) < MaxDeletes
        /\ deletes' = Append(deletes,
                             [id |-> customers[k], captured |-> customers, phase |-> "awaiting"])
        /\ UNCHANGED <<customers, loading, store, fetched>>
        /\ UNCHANGED dateVars

\* the store deletes the row (or finds none) and answers without error
StoreDeletes ==
    \E i \in DOMAIN deletes :
        /\ deletes[i].phase = "awaiting"
        /\ store' = store \ {deletes[i].id}
        /\ deletes' = [deletes EXCEPT ![i].phase = "ok"]
        /\ UNCHANGED <<customers, loading, fetched>>
        /\ UNCHANGED dateVars

\* the store answers with an error, the row stays
StoreRefuses ==
    \E i \in DOMAIN deletes :
        /\ deletes[i].phase = "awaiting"
        /\ deletes' = [deletes EXCEPT ![i].phase = "error"]
        /\ UNCHANGED <<customers, loading, store, fetched>>
        /\ UNCHANGED dateVars

\* deleteCustomer after its await: if (error) throw error; setCustomers(...)
ResumeDelete ==
    \E i \in DOMAIN deletes :
        /\ deletes[i].phase \in {"ok", "error"}
        /\ customers' = IF deletes[i].phase = "ok"
                        THEN FilterOut(deletes[i].captured, deletes[i].id)
                        ELSE customers
        /\ deletes' = [deletes EXCEPT ![i].phase =
                          IF deletes[i].phase = "ok" THEN "done" ELSE "failed"]
        /\ UNCHANGED <<loading, store, fetched>>
        /\ UNCHANGED dateVars

NextTable ==
    \/ FetchCustomersOk \/ FetchCustomersError
    \/ StartDelete \/ StoreDeletes \/ StoreRefuses \/ ResumeDelete

SpecTable == Init /\ [][NextTable]_vars

AllDeletesCompleted ==
    deletes # <<>> /\ \A i \in DOMAIN deletes : deletes[i].phase \in {"done", "failed"}

SucceededIds == {deletes[i].id : i \in {j \in DOMAIN deletes : deletes[j].phase = "done"}}

\* C13: once every deleteCustomer call that was started has completed, the
\* displayed list holds no record whose delete succeeded in the store and
\* every fetched record whose delete failed or was never requested.
C13_ListMatchesStore ==
    AllDeletesCompleted =>
        Range(customers) = Range(fetched) \ SucceededIds

====
